---- MODULE Spec2Model ----
(***************************************************************************)
(* Model of extract_pdf.py: the command-line PDF to Markdown extractor.    *)
(*                                                                         *)
(* Strings are sequences of one-character strings, so that startswith,     *)
(* endswith, slicing, strip, lower, int(), expanduser, Path.suffix and     *)
(* Path.with_suffix are computed the way the code computes them.           *)
(* The file system, the keyboard, the extraction library and the result of *)
(* open() are the environment: the file system is fixed by Init, the rest  *)
(* is chosen by the actions from small sets.                               *)
(***************************************************************************)
EXTENDS Integers, Sequences, FiniteSets, TLC

VARIABLES
    pc,             \* control point of main() and of the functions it calls
    args_pdf_file,  \* args.pdf_file after parse_args (None or a string)
    fsCount,        \* number of PDF files in the directory /h/s
    pdf_path,       \* main: pdf_path (None or a path)
    at,             \* the prompt that was answered last ("none" before the first)
    line,           \* the raw line input() returned there
    pdf_file,       \* get_manual_path: Path(pdf_path) after the clean-up
    walk,           \* find_pdf_files: what search_dir.rglob("*.pdf") yields
    walkPos,        \* find_pdf_files: number of entries consumed
    errAt,          \* find_pdf_files: entry at which PermissionError was raised, 0 if none
    pdf_files,      \* find_pdf_files / select_from_list: the list
    shown,          \* select_from_list: the numbered lines printed
    notice,         \* select_from_list: the "showing first 20 results" line was printed
    msg,            \* the last corrective message printed
    prompted,       \* an interactive prompt was shown
    extractCalls,   \* arguments of the calls of pymupdf4llm.to_markdown
    md_text,        \* main: md_text
    output_path,    \* save_markdown: output_path
    saveCalls,      \* number of calls of save_markdown
    written,        \* paths of the files written
    confirmed,      \* "Extraction completed successfully!" was printed
    exit_status     \* -1 while running, then the exit status of the process

vars == <<pc, args_pdf_file, fsCount, pdf_path, at, line, pdf_file, walk, walkPos, errAt,
          pdf_files, shown, notice, msg, prompted, extractCalls, md_text,
          output_path, saveCalls, written, confirmed, exit_status>>

----------------------------------------------------------------------------
(* Bounds of the model *)

\* /h/s holds 0..MaxExtra files, or Cap-1 .. Cap+MaxExtra files
MaxExtra == 2

----------------------------------------------------------------------------
(* Strings *)

None == <<"<None>">>

DQ == <<"\"">>
SQ == <<"'">>
SP == <<" ">>

StartsWith(s, pre) == Len(s) >= Len(pre) /\ SubSeq(s, 1, Len(pre)) = pre

EndsWith(s, suf) == Len(s) >= Len(suf) /\ SubSeq(s, Len(s) - Len(suf) + 1, Len(s)) = suf

RECURSIVE LStrip(_)
LStrip(s) == IF s # <<>> /\ s[1] = " " THEN LStrip(Tail(s)) ELSE s

RECURSIVE RStrip(_)
RStrip(s) == IF s # <<>> /\ s[Len(s)] = " " THEN RStrip(SubSeq(s, 1, Len(s) - 1)) ELSE s

\* str.strip()
Strip(s) == RStrip(LStrip(s))

LowerChar(c) ==
    CASE c = "P" -> "p" [] c = "D" -> "d" [] c = "F" -> "f"
      [] c = "Q" -> "q" [] c = "Y" -> "y" [] OTHER -> c

\* str.lower()
Lower(s) == [i \in 1..Len(s) |-> LowerChar(s[i])]

\* index of the first occurrence of character c in s at or after position i, 0 if none
RECURSIVE Find(_, _, _)
Find(s, c, i) == IF i > Len(s) THEN 0 ELSE IF s[i] = c THEN i ELSE Find(s, c, i + 1)

\* index of the last occurrence of character c in s at or before position i, 0 if none
RECURSIVE RFind(_, _, _)
RFind(s, c, i) == IF i < 1 THEN 0 ELSE IF s[i] = c THEN i ELSE RFind(s, c, i - 1)

Digits == <<"0", "1", "2", "3", "4", "5", "6", "7", "8", "9">>

DigitVal(c) == (CHOOSE i \in 1..10 : Digits[i] = c) - 1

IsDigits(s) == s # <<>> /\ \A i \in 1..Len(s) : \E j \in 1..10 : Digits[j] = s[i]

RECURSIVE DigitsVal(_)
DigitsVal(s) == IF s = <<>> THEN 0 ELSE 10 * DigitsVal(SubSeq(s, 1, Len(s) - 1)) + DigitVal(s[Len(s)])

\* int(s) for the decimal literals: optional surrounding blanks, optional sign, digits
IntBody(s) == IF s # <<>> /\ s[1] \in {"+", "-"} THEN Tail(s) ELSE s
IntOk(s) == IsDigits(IntBody(Strip(s)))
IntVal(s) ==
    LET t == Strip(s)
    IN  IF t[1] = "-" THEN 0 - DigitsVal(Tail(t)) ELSE DigitsVal(IntBody(t))

\* str(k) for k >= 0
RECURSIVE Str(_)
Str(k) == IF k < 10 THEN <<Digits[k + 1]>> ELSE Str(k \div 10) \o <<Digits[(k % 10) + 1]>>

----------------------------------------------------------------------------
(* Paths *)

HOME == <<"/", "h">>

PDF_EXT == <<".", "p", "d", "f">>
MD_EXT == <<".", "m", "d">>

\* Path(s): the empty string is the current directory, trailing slashes are dropped
RECURSIVE PathOf(_)
PathOf(s) ==
    IF s = <<>> THEN <<".">>
    ELSE IF Len(s) > 1 /\ s[Len(s)] = "/" THEN PathOf(SubSeq(s, 1, Len(s) - 1))
    ELSE s

\* PurePath.name: the final component
Name(p) == IF p = <<".">> THEN <<>> ELSE SubSeq(p, RFind(p, "/", Len(p)) + 1, Len(p))

\* PurePath.parent, with its trailing separator
Parent(p) == SubSeq(p, 1, RFind(p, "/", Len(p)))

\* PurePath.suffix: from the last dot of the name, unless that dot is first or last
Suffix(p) ==
    LET n == Name(p)
        i == RFind(n, ".", Len(n))
    IN  IF 1 < i /\ i < Len(n) THEN SubSeq(n, i, Len(n)) ELSE <<>>

MutWithSuffixReplacePdf(p, suffix) ==
    IF EndsWith(p, PDF_EXT)
    THEN SubSeq(p, 1, Len(p) - 4) \o suffix
    ELSE p

\* PurePath.with_suffix(suffix), for a path with a non-empty name
WithSuffix(p, suffix) ==
    LET old == Suffix(p)
    IN  IF old = <<>> THEN p \o suffix
        ELSE SubSeq(p, 1, Len(p) - Len(old)) \o suffix

\* os.path.expanduser: "~" or "~/..." is the home directory; no other user is known
ExpandUser(s) ==
    IF ~StartsWith(s, <<"~">>) THEN s
    ELSE LET f == Find(s, "/", 2)
             i == IF f = 0 THEN Len(s) + 1 ELSE f
         IN  IF i # 2 THEN s
             ELSE HOME \o SubSeq(s, i, Len(s))

\* PurePath.relative_to(Path.home()) succeeds
UnderHome(p) == p = HOME \/ StartsWith(p, HOME \o <<"/">>)

----------------------------------------------------------------------------
(* The file system *)

A_PDF    == <<"/", "h", "/", "a", ".", "p", "d", "f">>
B_PDF    == <<"/", "h", "/", "b", ".", "P", "D", "F">>
N_TXT    == <<"/", "h", "/", "n", ".", "t", "x", "t">>
DOT_PDF  == <<"/", "h", "/", ".", "p", "d", "f">>
D_DIR    == <<"/", "h", "/", "d", ".", "p", "d", "f">>
S_DIR    == <<"/", "h", "/", "s">>
T_DIR    == <<"/", "t">>
Z_PDF    == <<"/", "t", "/", "z", ".", "p", "d", "f">>
X_PDF    == <<"/", "h", "/", "x", ".", "p", "d", "f">>
NOPE_DIR == <<"/", "n", "o">>
CWD      == <<".">>

Letters == <<"a", "b", "c", "d", "e", "f", "g", "h", "i", "j", "k", "l", "m",
             "n", "o", "p", "q", "r", "s", "t", "u", "v", "w", "x", "y", "z">>

\* the i-th PDF file of /h/s
SFile(i) == S_DIR \o <<"/", Letters[i], ".", "p", "d", "f">>

\* the regular files, when /h/s holds n PDF files
FSFiles(n) == {A_PDF, B_PDF, N_TXT, DOT_PDF, Z_PDF} \cup {SFile(i) : i \in 1..n}

\* the directories
FSDirs == {CWD, HOME, D_DIR, S_DIR, T_DIR}

\* every entry below the roots, in the order a traversal meets them
FSEntries(n) ==
    <<DOT_PDF, A_PDF, B_PDF, D_DIR, N_TXT, S_DIR>> \o [i \in 1..n |-> SFile(i)] \o <<T_DIR, Z_PDF>>

\* Path.exists()
Exists(p, n) == p \in FSFiles(n) \cup FSDirs

\* Path.is_file()
IsFile(p, n) == p \in FSFiles(n)

\* search_dir.rglob("*.pdf"): the entries below search_dir whose name matches *.pdf
\* (matching is case-sensitive, as on POSIX; names that begin with a dot match too)
RGlob(search_dir, n) ==
    IF search_dir \notin FSDirs THEN <<>>
    ELSE SelectSeq(FSEntries(n),
                   LAMBDA p : /\ StartsWith(p, search_dir \o <<"/">>)
                              /\ EndsWith(Name(p), PDF_EXT))

----------------------------------------------------------------------------
(* What the user may type and pass *)

FILE_URL == <<"f", "i", "l", "e", ":", "/", "/">>

Args == {None, <<>>, A_PDF, B_PDF, X_PDF, N_TXT, D_DIR, DOT_PDF}

ManualCores ==
    {<<>>, A_PDF, B_PDF, X_PDF, N_TXT, D_DIR, DOT_PDF,
     <<"~">>, <<"~", "/", "a", ".", "p", "d", "f">>, <<"~", "u", "/", "a", ".", "p", "d", "f">>,
     FILE_URL \o A_PDF, FILE_URL \o <<"~", "/", "a", ".", "p", "d", "f">>}

Wraps(s) ==
    {s, DQ \o s \o DQ, SQ \o s \o SQ, DQ \o s, s \o SQ, SQ \o s \o DQ,
     DQ \o DQ \o s \o DQ \o DQ, SP \o DQ \o s \o DQ \o SP, SP \o s}

ManualInputs ==
    UNION {Wraps(s) : s \in ManualCores} \cup {FILE_URL \o DQ \o A_PDF \o DQ}

MenuInputs == {<<"1">>, <<" ", "1", " ">>, <<"2">>, <<"3">>, <<"4">>, <<>>}

DirInputs ==
    {DQ \o S_DIR \o DQ, T_DIR, SQ \o T_DIR \o SQ, SQ, NOPE_DIR, <<>>, A_PDF, <<"~">>}

RetryInputs == {<<"y">>, <<"Y">>, <<" ", "y", " ">>, <<"n">>, <<>>, <<"y", "e", "s">>}

SelectInputs(n) ==
    {Str(k) : k \in 0..(n + 1)} \cup
    {<<"q">>, <<"Q">>, <<" ", "q", " ">>, <<"x">>, <<>>, <<"-", "1">>, <<"+", "2">>,
     <<" ", "1", " ">>, <<"0", "2">>, <<"q", "q">>}

----------------------------------------------------------------------------
(* The program *)

\* the cap of find_pdf_files
Cap == 20

FileCounts == (0..MaxExtra) \cup ((Cap - 1)..(Cap + MaxExtra))

Init ==
    /\ pc = "main"
    /\ args_pdf_file \in Args
    /\ fsCount \in FileCounts
    /\ pdf_path = None
    /\ at = "none"
    /\ line = None
    /\ pdf_file = None
    /\ walk = <<>>
    /\ walkPos = 0
    /\ errAt = 0
    /\ pdf_files = <<>>
    /\ shown = <<>>
    /\ notice = FALSE
    /\ msg = "none"
    /\ prompted = FALSE
    /\ extractCalls = <<>>
    /\ md_text = "None"
    /\ output_path = None
    /\ saveCalls = 0
    /\ written = {}
    /\ confirmed = FALSE
    /\ exit_status = -1

\* sys.exit(status), and falling off the end of main with status 0
Exit(status) ==
    /\ pc' = "done"
    /\ exit_status' = status

\* `if args.pdf_file:` -- the truth value of the argument
ArgGiven(a) == a # None /\ a # <<>>

\* `pdf_path.suffix.lower() != '.pdf'`, negated
HasPdfSuffix(p) == Lower(Suffix(p)) = PDF_EXT

\* main, up to the first prompt or the call of extract_pdf_to_markdown
Main ==
    /\ pc = "main"
    /\ IF ArgGiven(args_pdf_file)
       THEN LET p == PathOf(args_pdf_file)
            IN  IF ~Exists(p, fsCount)
                THEN /\ Exit(1)
                     /\ msg' = "does not exist"
                     /\ UNCHANGED <<pdf_path, prompted>>
                ELSE IF ~HasPdfSuffix(p)
                THEN /\ Exit(1)
                     /\ msg' = "not a PDF file"
                     /\ UNCHANGED <<pdf_path, prompted>>
                ELSE /\ pdf_path' = p
                     /\ pc' = "extract"
                     /\ UNCHANGED <<msg, prompted, exit_status>>
       ELSE /\ pc' = "menu"
            /\ prompted' = TRUE
            /\ UNCHANGED <<pdf_path, msg, exit_status>>
    /\ UNCHANGED <<args_pdf_file, fsCount, at, line, pdf_file, walk, walkPos, errAt, pdf_files,
                   shown, notice, extractCalls, md_text, output_path, saveCalls,
                   written, confirmed>>

MutNoSelectionExit1 ==
    /\ pdf_path' = None
    /\ Exit(1)

\* main after get_pdf_path returned None: "No file selected. Exiting."
NoSelection ==
    /\ pdf_path' = None
    /\ Exit(0)

\* the clean-up of a quoted path: one leading and one trailing quote of the same kind
StripQuotes(s) ==
    IF StartsWith(s, DQ) /\ EndsWith(s, DQ) THEN SubSeq(s, 2, Len(s) - 1)
    ELSE IF StartsWith(s, SQ) /\ EndsWith(s, SQ) THEN SubSeq(s, 2, Len(s) - 1)
    ELSE s

\* `if pdf_path.startswith('file://'): pdf_path = pdf_path[7:]`
StripFileUrl(s) == IF StartsWith(s, FILE_URL) THEN SubSeq(s, 8, Len(s)) ELSE s

\* get_manual_path: the path checked for the line read
CleanManualPath(inp) == PathOf(ExpandUser(StripFileUrl(StripQuotes(Strip(inp)))))

\* select_from_list: the line printed for a file
DisplayPath(p) ==
    IF UnderHome(p) THEN <<"~", "/">> \o SubSeq(p, Len(HOME) + 2, Len(p)) ELSE p

\* select_from_list: the numbered lines, (number, text)
Display(files) == [i \in 1..Len(files) |-> <<i, DisplayPath(files[i])>>]

MutShowsNoticeGt(files) == Len(files) > Cap

\* select_from_list: `if len(pdf_files) >= 20`
ShowsNotice(files) == Len(files) >= Cap

\* find_pdf_files: `if len(pdf_files) >= 20: break`
CapReached(files) == Len(files) >= Cap

\* find_pdf_files returned `files` to get_pdf_path, which goes back to its menu when
\* the list is empty and prints the picklist of select_from_list otherwise
FindReturn(files) ==
    /\ pdf_files' = files
    /\ IF files = <<>>
       THEN /\ pc' = "menu"
            /\ msg' = "No PDF files found"
            /\ UNCHANGED <<shown, notice>>
       ELSE /\ pc' = "select"
            /\ shown' = Display(files)
            /\ notice' = ShowsNotice(files)
            /\ UNCHANGED msg

\* get_pdf_path calls find_pdf_files(search_dir): the loop starts
FindStart(search_dir) ==
    /\ walk' = RGlob(search_dir, fsCount)
    /\ walkPos' = 0
    /\ errAt' = 0
    /\ pdf_files' = <<>>
    /\ pc' = "find"

\* get_pdf_path: one line read at "Select option (1-3): "
GetPdfPath(inp) ==
    /\ pc = "menu"
    /\ at' = "menu"
    /\ line' = inp
    /\ LET c == Strip(inp)
       IN  IF c = <<"1">>
           THEN /\ pc' = "manual"
                /\ UNCHANGED <<walk, walkPos, errAt, pdf_files, msg>>
           ELSE IF c = <<"2">>
           THEN /\ FindStart(HOME)
                /\ UNCHANGED msg
           ELSE IF c = <<"3">>
           THEN /\ pc' = "dir"
                /\ UNCHANGED <<walk, walkPos, errAt, pdf_files, msg>>
           ELSE /\ msg' = "Please enter 1, 2, or 3"
                /\ UNCHANGED <<pc, walk, walkPos, errAt, pdf_files>>
    /\ UNCHANGED <<args_pdf_file, fsCount, pdf_path, pdf_file, shown, notice, prompted, extractCalls, md_text, output_path, saveCalls, written,
                   confirmed, exit_status>>

\* get_pdf_path, option 3: one line read at "Enter directory to search in: "
GetSearchDir(inp) ==
    /\ pc = "dir"
    /\ at' = "dir"
    /\ line' = inp
    /\ LET search_dir == StripQuotes(Strip(inp))
       IN  IF ~Exists(PathOf(search_dir), fsCount)
           THEN /\ pc' = "menu"
                /\ msg' = "Directory does not exist"
                /\ UNCHANGED <<walk, walkPos, errAt, pdf_files>>
           ELSE /\ FindStart(PathOf(search_dir))
                /\ UNCHANGED msg
    /\ UNCHANGED <<args_pdf_file, fsCount, pdf_path, pdf_file, shown, notice, prompted, extractCalls, md_text, output_path, saveCalls, written,
                   confirmed, exit_status>>

\* find_pdf_files: one iteration of the loop over rglob
FindStep ==
    /\ pc = "find"
    /\ walkPos < Len(walk)
    /\ walkPos' = walkPos + 1
    /\ LET f == walk[walkPos + 1]
           files == IF IsFile(f, fsCount) THEN Append(pdf_files, f) ELSE pdf_files
       IN  IF IsFile(f, fsCount) /\ CapReached(files)
           THEN FindReturn(files)
           ELSE /\ pdf_files' = files
                /\ UNCHANGED <<pc, shown, notice, msg>>
    /\ UNCHANGED <<args_pdf_file, fsCount, pdf_path, at, line, pdf_file, walk, errAt, prompted, extractCalls, md_text, output_path, saveCalls, written,
                   confirmed, exit_status>>

\* find_pdf_files: rglob is exhausted, the loop ends
FindExhausted ==
    /\ pc = "find"
    /\ walkPos = Len(walk)
    /\ FindReturn(pdf_files)
    /\ UNCHANGED <<args_pdf_file, fsCount, pdf_path, at, line, pdf_file, walk, walkPos, errAt,
                   prompted, extractCalls, md_text, output_path, saveCalls, written,
                   confirmed, exit_status>>

\* find_pdf_files: PermissionError is raised while the next entry is fetched or
\* examined; `except PermissionError: pass` is outside the loop
FindDenied ==
    /\ pc = "find"
    /\ walkPos < Len(walk)
    /\ errAt' = walkPos + 1
    /\ FindReturn(pdf_files)
    /\ UNCHANGED <<args_pdf_file, fsCount, pdf_path, at, line, pdf_file, walk, walkPos,
                   prompted, extractCalls, md_text, output_path, saveCalls, written,
                   confirmed, exit_status>>

MutIsQuitExact(c) == c = <<"q">>

\* select_from_list: `if choice.lower() == 'q'`
IsQuit(c) == Lower(c) = <<"q">>

\* select_from_list: one line read at "Select a file (1-n) or 'q' to quit: "
SelectFromList(inp) ==
    /\ pc = "select"
    /\ at' = "select"
    /\ line' = inp
    /\ LET c == Strip(inp)
       IN  IF IsQuit(c)
           THEN /\ NoSelection
                /\ UNCHANGED msg
           ELSE IF ~IntOk(c)
           THEN /\ msg' = "Please enter a valid number or 'q' to quit"
                /\ UNCHANGED <<pc, pdf_path, exit_status>>
           ELSE LET index == IntVal(c) - 1
                IN  IF 0 <= index /\ index < Len(pdf_files)
                    THEN /\ pdf_path' = pdf_files[index + 1]
                         /\ pc' = "extract"
                         /\ UNCHANGED <<msg, exit_status>>
                    ELSE /\ msg' = "Please enter a number between 1 and n"
                         /\ UNCHANGED <<pc, pdf_path, exit_status>>
    /\ UNCHANGED <<args_pdf_file, fsCount, pdf_file, walk, walkPos, errAt, pdf_files,
                   shown, notice, prompted, extractCalls, md_text, output_path, saveCalls,
                   written, confirmed>>

\* get_manual_path: one line read at "Enter the path to your PDF file: "
GetManualPath(inp) ==
    /\ pc = "manual"
    /\ at' = "manual"
    /\ line' = inp
    /\ LET p == CleanManualPath(inp)
       IN  /\ pdf_file' = p
           /\ IF ~Exists(p, fsCount)
              THEN /\ pc' = "retry"
                   /\ msg' = "File does not exist"
                   /\ UNCHANGED pdf_path
              ELSE IF ~HasPdfSuffix(p)
              THEN /\ msg' = "not a PDF file"
                   /\ UNCHANGED <<pc, pdf_path>>
              ELSE /\ pdf_path' = p
                   /\ pc' = "extract"
                   /\ UNCHANGED msg
    /\ UNCHANGED <<args_pdf_file, fsCount, walk, walkPos, errAt, pdf_files, shown, notice,
                   prompted, extractCalls, md_text, output_path, saveCalls, written,
                   confirmed, exit_status>>

\* get_manual_path: one line read at "Try again? (y/n): "
Retry(inp) ==
    /\ pc = "retry"
    /\ at' = "retry"
    /\ line' = inp
    /\ IF Lower(Strip(inp)) # <<"y">>
       THEN NoSelection
       ELSE /\ pc' = "manual"
            /\ UNCHANGED <<pdf_path, exit_status>>
    /\ UNCHANGED <<args_pdf_file, fsCount, pdf_file, walk, walkPos, errAt, pdf_files,
                   shown, notice, msg, prompted, extractCalls, md_text, output_path,
                   saveCalls, written, confirmed>>

MutAfterExtractNoCheck(text) ==
    /\ md_text' = text
    /\ pc' = "save"
    /\ UNCHANGED exit_status

\* main after extract_pdf_to_markdown returned: `if md_text is None: sys.exit(1)`
AfterExtract(text) ==
    /\ md_text' = text
    /\ IF text = "None"
       THEN Exit(1)
       ELSE /\ pc' = "save"
            /\ UNCHANGED exit_status

\* extract_pdf_to_markdown: the library returns text (ok) or raises an Exception
ExtractPdfToMarkdown(ok) ==
    /\ pc = "extract"
    /\ extractCalls' = Append(extractCalls, pdf_path)
    /\ msg' = IF ok THEN "Extracting text" ELSE "Error extracting PDF"
    /\ AfterExtract(IF ok THEN "text" ELSE "None")
    /\ UNCHANGED <<args_pdf_file, fsCount, pdf_path, at, line, pdf_file, walk, walkPos, errAt,
                   pdf_files, shown, notice, prompted, output_path, saveCalls,
                   written, confirmed>>

\* main after save_markdown returned: `if output_path is None: sys.exit(1)`, else the
\* confirmation is printed and main returns
AfterSave(saved) ==
    IF saved
    THEN /\ confirmed' = TRUE
         /\ Exit(0)
    ELSE /\ Exit(1)
         /\ UNCHANGED confirmed

\* save_markdown: open(output_path, 'w') and write succeed (ok) or raise an Exception
SaveMarkdown(ok) ==
    /\ pc = "save"
    /\ output_path' = WithSuffix(pdf_path, MD_EXT)
    /\ saveCalls' = saveCalls + 1
    /\ written' = IF ok THEN written \cup {output_path'} ELSE written
    /\ msg' = IF ok THEN "Markdown saved" ELSE "Error saving markdown file"
    /\ AfterSave(ok)
    /\ UNCHANGED <<args_pdf_file, fsCount, pdf_path, at, line, pdf_file, walk, walkPos, errAt,
                   pdf_files, shown, notice, prompted, extractCalls, md_text>>

Next ==
    \/ Main
    \/ \E inp \in MenuInputs : GetPdfPath(inp)
    \/ \E inp \in DirInputs : GetSearchDir(inp)
    \/ FindStep
    \/ FindExhausted
    \/ FindDenied
    \/ \E inp \in SelectInputs(Len(pdf_files)) : SelectFromList(inp)
    \/ \E inp \in ManualInputs : GetManualPath(inp)
    \/ \E inp \in RetryInputs : Retry(inp)
    \/ \E ok \in BOOLEAN : ExtractPdfToMarkdown(ok)
    \/ \E ok \in BOOLEAN : SaveMarkdown(ok)

Spec == Init /\ [][Next]_vars

----------------------------------------------------------------------------
(* The claims *)

\* the path ends in .pdf, in any letter case
EndsWithPdf(p) == Len(p) >= 4 /\ Lower(SubSeq(p, Len(p) - 3, Len(p))) = PDF_EXT

Running == exit_status = -1

\* C1: an explicit pdf_file argument that does not exist or does not end in .pdf
\* (any letter case) ends the process with status 1, with no prompt shown, no call of
\* the extraction library and no file written, whatever the argument's value.
C1_InvalidArgExits ==
    (/\ args_pdf_file # None
     /\ pc # "main"
     /\ \/ ~Exists(PathOf(args_pdf_file), fsCount)
        \/ ~EndsWithPdf(PathOf(args_pdf_file)))
    => (/\ pc = "done"
        /\ exit_status = 1
        /\ ~prompted
        /\ extractCalls = <<>>
        /\ written = {})

\* the last line read cancelled: q at the picklist, or anything but y at "Try again?"
C2_Cancelled ==
    \/ at = "select" /\ Strip(line) \in {<<"q">>, <<"Q">>}
    \/ at = "retry" /\ Strip(line) \notin {<<"y">>, <<"Y">>}

\* C2: in interactive mode a cancel (q at the picklist, declining the retry) makes the
\* resolver return no selection and the process exit with status 0; the extraction
\* library is never called and no file is written.
C2_CancelExitsZero ==
    C2_Cancelled
    => (/\ pc = "done"
        /\ exit_status = 0
        /\ pdf_path = None
        /\ extractCalls = <<>>
        /\ saveCalls = 0
        /\ written = {})

C2_Witness ==
    /\ C2_Cancelled
    /\ at = "retry"
    /\ pc = "done"
    /\ exit_status = 0

C3_ExtractionFailed == extractCalls # <<>> /\ md_text = "None"

\* C3: when the extraction library raises, the message is reported, the process exits
\* with status 1, the extraction is not tried again and save_markdown is never called,
\* so no file is written.
C3_ExtractFailureExitsOne ==
    C3_ExtractionFailed
    => (/\ pc = "done"
        /\ exit_status = 1
        /\ msg = "Error extracting PDF"
        /\ Len(extractCalls) = 1
        /\ saveCalls = 0
        /\ output_path = None
        /\ written = {}
        /\ ~confirmed)

C3_Witness ==
    /\ C3_ExtractionFailed
    /\ pc = "done"
    /\ exit_status = 1
    /\ prompted

\* C4: a path is handed to the extraction adapter only if it is an existing file whose
\* suffix is .pdf in any letter case, and every such file given as argument or typed at
\* the manual prompt is accepted.
C4_AcceptsExactlyPdfFiles ==
    /\ \A i \in 1..Len(extractCalls) :
          /\ IsFile(extractCalls[i], fsCount)
          /\ HasPdfSuffix(extractCalls[i])
    /\ (/\ args_pdf_file # None
        /\ pc # "main"
        /\ IsFile(PathOf(args_pdf_file), fsCount)
        /\ HasPdfSuffix(PathOf(args_pdf_file)))
       => pdf_path = PathOf(args_pdf_file)
    /\ (/\ at = "manual"
        /\ IsFile(pdf_file, fsCount)
        /\ HasPdfSuffix(pdf_file))
       => pdf_path = pdf_file

\* more PDF files exist under the search root than the list holds
C5_MoreExist ==
    Cardinality({i \in 1..Len(walk) : IsFile(walk[i], fsCount)}) > Len(pdf_files)

\* C5: find_pdf_files never returns more than 20 entries, and when the cap is reached
\* while more PDF files exist under the root, the picklist carries the truncation notice.
C5_CapAndNotice ==
    /\ Len(pdf_files) <= Cap
    /\ (pc \notin {"main", "menu", "dir", "manual", "retry", "find"}
        /\ shown # <<>> /\ Len(pdf_files) = Cap /\ C5_MoreExist)
       => notice

C5_Witness ==
    /\ pc = "select"
    /\ Len(pdf_files) = Cap
    /\ C5_MoreExist
    /\ notice

\* the input path without its final extension: the text from the last dot of the final
\* component on is dropped, unless the component begins with that dot
C6_WithoutExtension(p) ==
    LET slash == RFind(p, "/", Len(p))
        dot == RFind(p, ".", Len(p))
    IN  IF dot > slash + 1 /\ dot < Len(p) THEN SubSeq(p, 1, dot - 1) ELSE p

\* C6: the output path is the input path with its final extension removed and .md
\* appended, in the directory of the input, whatever the letter case of the input's
\* extension (b.PDF gives b.md).
C6_OutputPath ==
    output_path # None
    => (/\ output_path = C6_WithoutExtension(pdf_path) \o MD_EXT
        /\ Parent(output_path) = Parent(pdf_path)
        /\ EndsWith(output_path, MD_EXT)
        /\ (EndsWithPdf(pdf_path) /\ HasPdfSuffix(pdf_path))
           => output_path = SubSeq(pdf_path, 1, Len(pdf_path) - 4) \o MD_EXT
        /\ written \subseteq {output_path})

C6_Witness ==
    /\ pdf_path = B_PDF
    /\ output_path = <<"/", "h", "/", "b", ".", "m", "d">>
    /\ output_path \in written

\* one layer of matching surrounding quotes removed; a string without a matching
\* surrounding pair is left as it is
C7_StripPair(s) ==
    IF Len(s) >= 2 /\ s[1] = s[Len(s)] /\ s[1] \in {"\"", "'"}
    THEN SubSeq(s, 2, Len(s) - 1)
    ELSE s

\* C7: the path that get_manual_path checks is the typed line with one layer of
\* matching surrounding quotes and a leading file:// removed and a leading ~ expanded;
\* a line without a matching surrounding pair of quotes loses no quote character.
C7_ManualCleanup ==
    at = "manual"
    => pdf_file = PathOf(ExpandUser(StripFileUrl(C7_StripPair(Strip(line)))))

C8_ArgInvalid ==
    /\ args_pdf_file # None
    /\ ~(Exists(PathOf(args_pdf_file), fsCount) /\ HasPdfSuffix(PathOf(args_pdf_file)))

C8_WriteFailed == saveCalls > 0 /\ written = {}

\* C8: a run ends with status 0 or 1; 0 exactly when the output file was written or the
\* user cancelled without selecting a file; 1 exactly when the supplied argument was
\* invalid, the extraction failed or the write failed, and a failed write is never
\* followed by the success confirmation.
C8_ExitStatus ==
    pc = "done"
    => (/\ exit_status \in {0, 1}
        /\ exit_status = 0 <=> (written # {} \/ (prompted /\ pdf_path = None))
        /\ exit_status = 1 <=> (C8_ArgInvalid \/ C3_ExtractionFailed \/ C8_WriteFailed)
        /\ C8_WriteFailed => ~confirmed)

\* the first Cap regular files that rglob yields, the entry that raised left out
C9_Expected ==
    LET readable == SelectSeq(walk, LAMBDA p : p # walk[errAt] /\ IsFile(p, fsCount))
    IN  SubSeq(readable, 1, IF Len(readable) < Cap THEN Len(readable) ELSE Cap)

\* C9: a permission error during the search skips only the unreadable entry: the PDF
\* files of the rest of the tree are still returned, up to the cap.
C9_DeniedSkipsOnlySubtree ==
    errAt # 0 => pdf_files = C9_Expected

C10_Numbered ==
    /\ Len(shown) = Len(pdf_files)
    /\ \A i \in 1..Len(shown) : shown[i] = <<i, DisplayPath(pdf_files[i])>>

C10_Reprompted ==
    /\ pc = "select"
    /\ Running
    /\ pdf_path = None
    /\ extractCalls = <<>>
    /\ msg \in {"Please enter a valid number or 'q' to quit",
                "Please enter a number between 1 and n"}

C10_NoSelection ==
    /\ pc = "done"
    /\ exit_status = 0
    /\ pdf_path = None
    /\ extractCalls = <<>>

C10_Selected(k) ==
    /\ pc \in {"extract", "save", "done"}
    /\ pdf_path = pdf_files[k]
    /\ shown[k] = <<k, DisplayPath(pdf_path)>>
    /\ \A i \in 1..Len(extractCalls) : extractCalls[i] = pdf_files[k]

C10_Answer(quit) ==
    at = "select"
    => LET c == Strip(line)
       IN  /\ C10_Numbered
           /\ IF c \in quit THEN C10_NoSelection
              ELSE IF IntOk(c) /\ 1 <= IntVal(c) /\ IntVal(c) <= Len(pdf_files)
              THEN C10_Selected(IntVal(c))
              ELSE C10_Reprompted

\* C10 as stated: entries are numbered from 1; an integer k in 1..n returns the k-th
\* entry, 'q' returns no selection, and every other line reprompts with a corrective
\* message, so the file passed to extraction is the one shown at the chosen number.
C10_Original == C10_Answer({<<"q">>})

\* C10 as amended: the same, with no selection returned for 'q' in either letter case.
C10_Amended == C10_Answer({<<"q">>, <<"Q">>})

C10_Witness ==
    /\ at = "select"
    /\ line = <<"Q">>
    /\ C10_NoSelection

====
